---- MODULE Spec2Model ----
(***************************************************************************)
(* Model of wn-pybridge/src/pybridge_helpers.py:                           *)
(*                                                                         *)
(*   def morphy_to_json(morphy, form, pos=None):                           *)
(*       result = morphy(form, pos)                                        *)
(*       return json.dumps({k if k is not None else 'null': list(v)        *)
(*                          for k, v in result.items()})                   *)
(*                                                                         *)
(* Python values are tagged records.  A dict is the sequence of its        *)
(* entries in insertion order (keys pairwise distinct).  A collection      *)
(* (list or set) carries the sequence in which it iterates.  A JSON text   *)
(* is the sequence of its lexemes, each lexeme the exact characters        *)
(* json.dumps emits; Text joins them into the character string.            *)
(***************************************************************************)
EXTENDS Naturals, Sequences, FiniteSets, TLC

VARIABLES pc, form, given, pos, calls, result, ret, prev

vars == <<pc, form, given, pos, calls, result, ret, prev>>

----------------------------------------------------------------------------
(* Bounds of the lookup results the environment may produce. *)

MaxKeys == 2
MaxForms == 2

----------------------------------------------------------------------------
(* Python values *)

None == [type |-> "NoneType"]
Str(s) == [type |-> "str", val |-> s]
PyList(xs) == [type |-> "list", items |-> xs]
PySet(xs) == [type |-> "set", items |-> xs]

(* The caller left the pos argument out. *)
Omitted == [type |-> "omitted"]

(* Outcomes of a call: a returned value or a raised exception. *)
Return(v) == [kind |-> "return", value |-> v]
Raise(e) == [kind |-> "raise", exc |-> e]
Pending == [kind |-> "pending"]

(* The inputs and lookup results that are enumerated. *)
WordForms == {"", "running"}
PosTags == {"v", "null"}
BaseForms == {"run", "ran"}
LookupErrors == {"ValueError", "KeyError"}

PosArgs == {Omitted, None, Str("v")}
ResultKeys == {None} \cup {Str(p) : p \in PosTags}

SeqsUpTo(S, n) == UNION {[1..k -> S] : k \in 0..n}
Injective(xs) == \A i, j \in DOMAIN xs : xs[i] = xs[j] => i = j

(* Value collections: lists iterate in list order and may repeat a member, *)
(* sets iterate in some order over distinct members.                       *)
Collections ==
  {PyList(xs) : xs \in SeqsUpTo(BaseForms, MaxForms)}
    \cup {PySet(xs) : xs \in {ys \in SeqsUpTo(BaseForms, MaxForms) : Injective(ys)}}

Entry(k, v) == [key |-> k, val |-> v]

(* Lookup Results: dicts from a part-of-speech string or None to a          *)
(* collection; the keys of one result are pairwise distinct.                *)
KeyOrders(n) == {ks \in [1..n -> ResultKeys] : Injective(ks)}
Dict(ks, vs) == [i \in DOMAIN ks |-> Entry(ks[i], vs[i])]

(* Lookup results a stubbed lookup hands out in the multi-call runs. *)
StubResults ==
  { <<>>,
    <<Entry(None, PyList(<<"run">>)), Entry(Str("v"), PyList(<<"run">>))>>,
    <<Entry(Str("v"), PySet(<<"run", "ran">>))>>,
    <<Entry(Str("v"), PySet(<<"ran", "run">>))>>,
    <<Entry(None, PySet(<<"run">>)), Entry(Str("null"), PyList(<<"ran", "ran">>))>> }

----------------------------------------------------------------------------
(* dict operations *)

HasKey(d, k) == \E i \in DOMAIN d : d[i].key = k
IndexOf(d, k) == CHOOSE i \in DOMAIN d : d[i].key = k

(* d[k] = v: an existing key keeps its place and takes the new value. *)
DictSet(d, k, v) ==
  IF HasKey(d, k) THEN [d EXCEPT ![IndexOf(d, k)].val = v]
  ELSE Append(d, Entry(k, v))

----------------------------------------------------------------------------
(* Line 3: def morphy_to_json(morphy, form, pos=None) *)

(* The parameter pos takes the default None when the caller leaves it out. *)
BindPos(a) == IF a = Omitted THEN None ELSE a

----------------------------------------------------------------------------
(* Line 4: result = morphy(form, pos) *)

LookupCall(f, p) == [form |-> f, pos |-> p]

PropagateSwallowed(e) == Return(<<"{", "}">>)

(* No try/except surrounds the lookup: its exception ends the call. *)
Propagate(e) == Raise(e)

----------------------------------------------------------------------------
(* Line 5: the dict comprehension *)

KeyOfRepr(k) == IF k # None THEN k ELSE Str("None")

KeyOfUnchanged(k) == k

(* k if k is not None else 'null' *)
KeyOf(k) == IF k # None THEN k ELSE Str("null")

ListUnconverted(v) == v

(* list(v): a new list of v's members in v's iteration order. *)
List(v) == PyList(v.items)

(* d[k] = d.get(k, []) + v on a dict that outlives the call. *)
DictExtend(d, k, v) ==
  IF HasKey(d, k)
  THEN [d EXCEPT ![IndexOf(d, k)].val = PyList(@.items \o v.items)]
  ELSE Append(d, Entry(k, v))

RECURSIVE ExtendInto(_, _, _)
ExtendInto(d, items, n) ==
  IF n = 0 THEN d
  ELSE LET e == items[n]
       IN DictExtend(ExtendInto(d, items, n - 1), KeyOf(e.key), List(e.val))

DictCompShared(items) ==
  LET kept == IF prev.result.kind = "return"
              THEN ExtendInto(<<>>, prev.result.value, Len(prev.result.value))
              ELSE <<>>
  IN ExtendInto(kept, items, Len(items))

RECURSIVE CompInto(_, _)
CompInto(items, n) ==
  IF n = 0 THEN <<>>
  ELSE LET e == items[n]
       IN DictSet(CompInto(items, n - 1), KeyOf(e.key), List(e.val))

(* {KeyOf(k): list(v) for k, v in result.items()}: the entries are taken in *)
(* the order result iterates them and stored into a fresh dict.             *)
DictComp(items) == CompInto(items, Len(items))

----------------------------------------------------------------------------
(* Line 5: json.dumps with its default arguments *)

ItemSeparatorCompact == ","

(* separators=(', ', ': ') when indent is None *)
ItemSeparator == ", "

KeySeparator == ": "

(* A string without characters that need escaping, between double quotes. *)
EncodeStr(s) == "\"" \o s \o "\""

(* skipkeys=False: a str key is encoded as a string, a None key as "null". *)
EncodeKey(k) == IF k = None THEN EncodeStr("null") ELSE EncodeStr(k.val)

RECURSIVE Joined(_, _, _)
Joined(parts, sep, n) ==
  IF n = 0 THEN <<>>
  ELSE IF n = 1 THEN parts[1]
  ELSE Joined(parts, sep, n - 1) \o <<sep>> \o parts[n]

EncodeList(v) ==
  <<"[">> \o Joined([i \in DOMAIN v.items |-> <<EncodeStr(v.items[i])>>],
                    ItemSeparator, Len(v.items)) \o <<"]">>

EncodeDict(d) ==
  <<"{">> \o Joined([i \in DOMAIN d |->
                       <<EncodeKey(d[i].key), KeySeparator>> \o EncodeList(d[i].val)],
                    ItemSeparator, Len(d)) \o <<"}">>

(* The default encoder serializes list (and tuple) and rejects a set. *)
Serializable(v) == v.type = "list"

JsonDumpsFalsy(d) ==
  IF \E i \in DOMAIN d : ~Serializable(d[i].val) THEN Raise("TypeError")
  ELSE IF d = <<>> THEN Return(<<"null">>)
  ELSE Return(EncodeDict(d))

JsonDumps(d) ==
  IF \E i \in DOMAIN d : ~Serializable(d[i].val) THEN Raise("TypeError")
  ELSE Return(EncodeDict(d))

Line5Memoized(items) ==
  IF prev.ret.kind = "return" /\ prev.form = form THEN prev.ret
  ELSE JsonDumps(DictComp(items))

(* return json.dumps({...}) *)
Line5(items) == JsonDumps(DictComp(items))

----------------------------------------------------------------------------
(* One call of morphy_to_json after another *)

NoCall == [form |-> "", given |-> Omitted, pos |-> None, calls |-> <<>>,
           result |-> Pending, ret |-> Pending]

(* The call that has just ended, if one has. *)
Last ==
  IF pc = "done"
  THEN [form |-> form, given |-> given, pos |-> pos, calls |-> calls,
        result |-> result, ret |-> ret]
  ELSE prev

Init ==
  /\ pc = "idle"
  /\ form = ""
  /\ given = Omitted
  /\ pos = None
  /\ calls = <<>>
  /\ result = Pending
  /\ ret = Pending
  /\ prev = NoCall

(* A caller enters morphy_to_json(morphy, f, a); earlier is what is kept of *)
(* the calls before it.                                                     *)
Call(f, a, earlier) ==
  /\ pc \in {"idle", "done"}
  /\ pc' = "line4"
  /\ form' = f
  /\ given' = a
  /\ pos' = BindPos(a)
  /\ calls' = <<>>
  /\ result' = Pending
  /\ ret' = Pending
  /\ prev' = earlier

(* morphy(form, pos) has returned the mapping r. *)
Returned(r) ==
  /\ result' = Return(r)
  /\ calls' = Append(calls, LookupCall(form, pos))
  /\ pc' = "line5"
  /\ UNCHANGED <<form, given, pos, ret, prev>>

(* morphy(form, pos) returns some Lookup Result. *)
MorphyReturns ==
  /\ pc = "line4"
  /\ \E n \in 0..MaxKeys :
       \E ks \in KeyOrders(n), vs \in [1..n -> Collections] :
         Returned(Dict(ks, vs))

(* A stubbed morphy(form, pos) returns one of its results. *)
StubReturns ==
  /\ pc = "line4"
  /\ \E r \in StubResults : Returned(r)

(* morphy(form, pos) raises. *)
MorphyRaises ==
  /\ pc = "line4"
  /\ \E e \in LookupErrors :
       /\ result' = Raise(e)
       /\ ret' = Propagate(e)
  /\ calls' = Append(calls, LookupCall(form, pos))
  /\ pc' = "done"
  /\ UNCHANGED <<form, given, pos, prev>>

(* The comprehension and json.dumps run and the call ends. *)
Serialize ==
  /\ pc = "line5"
  /\ ret' = Line5(result.value)
  /\ pc' = "done"
  /\ UNCHANGED <<form, given, pos, calls, result, prev>>

(* Single calls, over every bounded lookup result. *)
Next ==
  \/ \E f \in WordForms, a \in PosArgs : Call(f, a, NoCall)
  \/ MorphyReturns
  \/ MorphyRaises
  \/ Serialize

Spec == Init /\ [][Next]_vars

(* Sequences of calls against a stubbed lookup, the call before kept. *)
NextCalls ==
  \/ \E f \in WordForms, a \in PosArgs : Call(f, a, Last)
  \/ StubReturns
  \/ MorphyRaises
  \/ Serialize

SpecCalls == Init /\ [][NextCalls]_vars

----------------------------------------------------------------------------
(* What a consumer reads from a payload: json.loads *)

RECURSIVE TextOf(_, _)
TextOf(toks, n) == IF n = 0 THEN "" ELSE TextOf(toks, n - 1) \o toks[n]

(* The characters of a JSON text. *)
Text(toks) == TextOf(toks, Len(toks))

JsonStrings == BaseForms \cup PosTags \cup {"null", "None"}

DecodeStr(tok) == CHOOSE s \in JsonStrings : tok = "\"" \o s \o "\""

(* The strings of an array from lexeme i on, and the index after its "]". *)
RECURSIVE LoadItems(_, _)
LoadItems(toks, i) ==
  IF toks[i] = "]" THEN [items |-> <<>>, next |-> i + 1]
  ELSE IF toks[i] = ", " THEN LoadItems(toks, i + 1)
  ELSE LET rest == LoadItems(toks, i + 1)
       IN [items |-> <<DecodeStr(toks[i])>> \o rest.items, next |-> rest.next]

(* The name/array pairs of an object from lexeme i on, as written. *)
RECURSIVE LoadMembers(_, _)
LoadMembers(toks, i) ==
  IF toks[i] = "}" THEN <<>>
  ELSE IF toks[i] = ", " THEN LoadMembers(toks, i + 1)
  ELSE LET arr == LoadItems(toks, i + 3)
       IN <<[name |-> DecodeStr(toks[i]), items |-> arr.items]>>
            \o LoadMembers(toks, arr.next)

Members(toks) == LoadMembers(toks, 2)

LoadedKeys(toks) == {Members(toks)[j].name : j \in DOMAIN Members(toks)}

(* json.loads keeps the last value written for a name. *)
LoadedValue(toks, name) ==
  LET ms == Members(toks)
      at == {j \in DOMAIN ms : ms[j].name = name}
      last == CHOOSE j \in at : \A h \in at : h <= j
  IN ms[last].items

(* The payload name a lookup key is expected under. *)
NameOf(k) == IF k = None THEN "null" ELSE k.val

Served == pc = "done" /\ result.kind = "return" /\ ret.kind = "return"

Collides(d) ==
  /\ \E i \in DOMAIN d : d[i].key = None
  /\ \E i \in DOMAIN d : d[i].key = Str("null")

----------------------------------------------------------------------------
(* C1: whenever the lookup returned a mapping and morphy_to_json returned a *)
(* payload, the set of keys of the payload is the set of keys of the lookup *)
(* result with None replaced by "null": nothing missing, nothing added.     *)
C1_PayloadKeySet ==
  Served =>
    LoadedKeys(ret.value) = {NameOf(result.value[i].key) : i \in DOMAIN result.value}

C1_Witness ==
  /\ Served
  /\ Len(result.value) = 2
  /\ result.value[1].key = Str("v")
  /\ result.value[2].key = None
  /\ LoadedKeys(ret.value) = {"v", "null"}

(* C2: round trip: the payload, deserialized, has the lookup result's keys  *)
(* (None as "null") and gives for every key of the lookup result the        *)
(* ordered list of that key's values.                                       *)
C2_RoundTrip ==
  Served =>
    /\ LoadedKeys(ret.value) = {NameOf(result.value[i].key) : i \in DOMAIN result.value}
    /\ \A i \in DOMAIN result.value :
         LoadedValue(ret.value, NameOf(result.value[i].key)) = result.value[i].val.items

(* The round trip holds of every lookup result without the None/"null" pair. *)
C2_RoundTripWithoutCollision ==
  (Served /\ ~Collides(result.value)) => C2_RoundTrip

(* C3: for every key of the lookup result, the list written for it in the   *)
(* payload has the members of the key's collection in iteration order:      *)
(* same length, duplicates kept, empty collection as empty list.            *)
C3_ListPerKey ==
  Served =>
    \A i \in DOMAIN result.value :
      LET ms == Members(ret.value)
          e == result.value[i]
      IN /\ \E j \in DOMAIN ms : ms[j].name = NameOf(e.key)
         /\ \A j \in DOMAIN ms :
              ms[j].name = NameOf(e.key) =>
                /\ Len(ms[j].items) = Len(e.val.items)
                /\ \A n \in DOMAIN ms[j].items : ms[j].items[n] = e.val.items[n]

C3_ListPerKeyWithoutCollision ==
  (Served /\ ~Collides(result.value)) => C3_ListPerKey

(* C4: if the lookup raised, morphy_to_json ends by raising that same       *)
(* exception and returns no payload.                                        *)
C4_FailurePropagates ==
  (pc = "done" /\ result.kind = "raise") =>
    (ret.kind = "raise" /\ ret.exc = result.exc)

C4_Witness ==
  /\ pc = "done"
  /\ result = Raise("KeyError")
  /\ ret = Raise("KeyError")
  /\ calls # <<>>

(* C5: whenever the lookup returned a Lookup Result, for any form (the      *)
(* empty one too) and any filter, morphy_to_json returns a payload and does *)
(* not raise.                                                               *)
C5_NoOwnError ==
  (pc = "done" /\ result.kind = "return") => ret.kind = "return"

C5_Witness ==
  /\ Served
  /\ form = ""
  /\ \E i \in DOMAIN result.value : result.value[i].val.type = "set"

C7_Stateless ==
  /\ pc = "line4" => calls = <<>>
  /\ pc \in {"line5", "done"} =>
       calls = <<[form |-> form, pos |-> IF given = Omitted THEN None ELSE given]>>
  /\ (pc = "done" /\ prev.ret.kind # "pending" /\ prev.result = result) =>
       prev.ret = ret

C7_Witness ==
  /\ Served
  /\ prev.ret.kind = "return"
  /\ prev.result = result
  /\ result.value # <<>>
  /\ prev.form # form
  /\ prev.given # given
  /\ given = Omitted
  /\ calls = <<[form |-> form, pos |-> None]>>

(* C8: when the lookup returns the empty mapping the payload is the two     *)
(* characters {}.                                                           *)
C8_EmptyResult ==
  (pc = "done" /\ result = Return(<<>>)) =>
    (ret.kind = "return" /\ Text(ret.value) = "{}")

C8_Witness ==
  /\ pc = "done"
  /\ result = Return(<<>>)
  /\ ret.kind = "return"
  /\ Text(ret.value) = "{}"

(* C9: form "running", no filter, lookup result {None: ["run"], "v":        *)
(* ["run"]} in that order: the payload is {"null": ["run"], "v": ["run"]}.  *)
C9_RunningExample ==
  (/\ pc = "done"
   /\ form = "running"
   /\ given = Omitted
   /\ result = Return(<<Entry(None, PyList(<<"run">>)),
                        Entry(Str("v"), PyList(<<"run">>))>>)) =>
    (/\ ret.kind = "return"
     /\ Text(ret.value) = "{\"null\": [\"run\"], \"v\": [\"run\"]}")

C9_Witness ==
  /\ pc = "done"
  /\ form = "running"
  /\ given = Omitted
  /\ result = Return(<<Entry(None, PyList(<<"run">>)),
                       Entry(Str("v"), PyList(<<"run">>))>>)
  /\ ret.kind = "return"

(* C10: a lookup result holding both None and the string "null" gives a     *)
(* payload with one "null" key, carrying the values of the later of the two *)
(* entries, and one key fewer than the lookup result; any other lookup      *)
(* result gives a payload with as many keys as it has.                      *)
C10_NullCollision ==
  Served =>
    LET d == result.value
        ms == Members(ret.value)
        nulls == {j \in DOMAIN ms : ms[j].name = "null"}
        pair == {i \in DOMAIN d : d[i].key \in {None, Str("null")}}
    IN IF Collides(d)
       THEN /\ Cardinality(nulls) = 1
            /\ Len(ms) = Len(d) - 1
            /\ \A j \in nulls, i \in pair :
                 (\A h \in pair : h <= i) => ms[j].items = d[i].val.items
       ELSE Len(ms) = Len(d)

C10_Witness ==
  /\ Served
  /\ Len(result.value) = 2
  /\ result.value[1] = Entry(None, PySet(<<"run">>))
  /\ result.value[2] = Entry(Str("null"), PyList(<<"ran", "ran">>))
  /\ Len(Members(ret.value)) = 1
  /\ Members(ret.value)[1] = [name |-> "null", items |-> <<"ran", "ran">>]

====
